---- MODULE Spec2Model ----
(***************************************************************************)
(* A model of coderoller: the path filter, the README and per-file content *)
(* emitter, the interactive selector with its fallback menu, and main's    *)
(* handling of the clone scratch directory.                                *)
(*                                                                         *)
(* Paths, file names and ignore patterns are TLA+ strings and are handled  *)
(* character by character, as the Python code handles them.                *)
(***************************************************************************)
EXTENDS Integers, Sequences, FiniteSets, TLC

(***************************************************************************)
(* Bounds of the model.                                                    *)
(***************************************************************************)
\* The largest number of entries (directories and files) of a repository.
MaxEntries == 3

(***************************************************************************)
(* Strings.                                                                *)
(***************************************************************************)
\* str.startswith
StartsWith(s, p) ==
    /\ Len(p) <= Len(s)
    /\ SubSeq(s, 1, Len(p)) = p

\* str.endswith
EndsWith(s, p) ==
    /\ Len(p) <= Len(s)
    /\ SubSeq(s, Len(s) - Len(p) + 1, Len(s)) = p

\* Python's `sub in s` on strings: sub occurs at some position of s.
Contains(s, sub) ==
    \E i \in 1..(Len(s) - Len(sub) + 1) : SubSeq(s, i, i + Len(sub) - 1) = sub

\* The positions of the character c in s.
Positions(s, c) == {i \in 1..Len(s) : SubSeq(s, i, i) = c}

SetMax(S) == CHOOSE x \in S : \A y \in S : y <= x

SetMin(S) == CHOOSE x \in S : \A y \in S : x <= y

\* The characters the model's names are written in, in code point order.
Alphabet == "!*-./0123456789ADEMR_abcdefghijklmnoprstuvxy"

\* ord(c), up to the order it induces on the characters of Alphabet.
Ord(c) == SetMin(Positions(Alphabet, c))

\* Python's s < t on strings: lexicographic by code point.
RECURSIVE StrLess(_, _)
StrLess(s, t) ==
    IF t = "" THEN FALSE
    ELSE IF s = "" THEN TRUE
    ELSE IF SubSeq(s, 1, 1) = SubSeq(t, 1, 1)
         THEN StrLess(SubSeq(s, 2, Len(s)), SubSeq(t, 2, Len(t)))
         ELSE Ord(SubSeq(s, 1, 1)) < Ord(SubSeq(t, 1, 1))

\* str.lower, on the upper-case letters of Alphabet.
LowerChar(c) ==
    CASE c = "A" -> "a"
      [] c = "D" -> "d"
      [] c = "E" -> "e"
      [] c = "M" -> "m"
      [] c = "R" -> "r"
      [] OTHER -> c

RECURSIVE Lower(_)
Lower(s) ==
    IF s = "" THEN ""
    ELSE LowerChar(SubSeq(s, 1, 1)) \o Lower(SubSeq(s, 2, Len(s)))

\* str.split(sep) for a one-character separator.
RECURSIVE Split(_, _)
Split(s, sep) ==
    IF Positions(s, sep) = {} THEN <<s>>
    ELSE LET i == SetMin(Positions(s, sep))
         IN  <<SubSeq(s, 1, i - 1)>> \o Split(SubSeq(s, i + 1, Len(s)), sep)

\* str.splitlines: the lines of a text, without a last empty one.
SplitLines(text) ==
    LET parts == Split(text, "\n")
    IN  IF parts[Len(parts)] = "" THEN SubSeq(parts, 1, Len(parts) - 1) ELSE parts

\* list.sort on a set of distinct strings: the ascending list of them.
RECURSIVE SortedList(_)
SortedList(S) ==
    IF S = {} THEN <<>>
    ELSE LET m == CHOOSE x \in S : \A y \in S \ {x} : StrLess(x, y)
         IN  <<m>> \o SortedList(S \ {m})

Range(f) == {f[i] : i \in DOMAIN f}

(***************************************************************************)
(* os.path.                                                                *)
(***************************************************************************)
\* os.path.join(a, b) for a relative b.
Join(a, b) ==
    IF a = "" THEN b
    ELSE IF EndsWith(a, "/") THEN a \o b
    ELSE a \o "/" \o b

\* os.path.relpath(path, start) for a path below start.
RelPath(path, start) ==
    IF path = start THEN "."
    ELSE SubSeq(path, Len(start) + 2, Len(path))

\* os.path.basename
BaseName(path) ==
    IF Positions(path, "/") = {} THEN path
    ELSE SubSeq(path, SetMax(Positions(path, "/")) + 1, Len(path))

\* os.path.splitext(name)[1]: from the last dot of the last component on,
\* unless that dot is one of the component's leading dots.
SplitExt(path) ==
    LET name == BaseName(path)
        dots == Positions(name, ".")
        lead == {i \in 1..Len(name) : \A j \in 1..i : SubSeq(name, j, j) = "."}
    IN  IF dots = {} \/ SetMax(dots) \in lead THEN ""
        ELSE SubSeq(name, SetMax(dots), Len(name))

(***************************************************************************)
(* The repositories the model runs on.                                     *)
(***************************************************************************)
\* The directories a repository may hold, by path relative to its root.
UniverseDirs == {"src"}

\* The files a repository may hold, by path relative to its root.
UniverseFiles ==
    {"README.md", "README.rst", "readme.hidden", "notes.txt",
     "src/main.py", "src/util.py", ".hidden_file.py", ".gitignore"}

\* The texts a repository's .gitignore may hold: a glob, a glob with a
\* pattern that includes again, and the name of a directory.
GitignoreTexts == {"*.md\n", "*.py\n!.hidden_file.py\n", "src\n"}

\* os.path.dirname of a relative path ("" for an entry of the root).
DirName(path) ==
    IF Positions(path, "/") = {} THEN ""
    ELSE SubSeq(path, 1, SetMax(Positions(path, "/")) - 1)

\* A repository: at most MaxEntries entries, each with its parent directory.
Repos ==
    {R \in SUBSET (UniverseDirs \cup UniverseFiles) :
        /\ Cardinality(R) <= MaxEntries
        /\ \A p \in R : DirName(p) = "" \/ DirName(p) \in R}

\* The local paths and the clone URL main may be given: one local path
\* lies under a directory named build; the name of the URL's repository
\* holds ".git" before its suffix as well.
InputPaths == {"repo", "build/repo", "https://host/my.github.io.git"}

\* The names tempfile.mkdtemp may return.
TempDirs == {"/tmp/tmpq3x"}

(***************************************************************************)
(* source_repo_flattener.py: the file-type table and the path filter.      *)
(***************************************************************************)
\* FILE_TYPES with an entry for ".txt".
MutFileTypesWithTxt ==
    [x \in {".py", ".json", ".md", ".txt"} |->
        CASE x = ".py" -> "python"
          [] x = ".json" -> "json"
          [] x = ".md" -> "markdown"
          [] OTHER -> "text"]

FILE_TYPES ==
    [x \in {".py", ".js", ".jsx", ".ts", ".tsx", ".swift", ".go", ".java",
            ".c", ".cpp", ".h", ".hpp", ".cs", ".lua", ".rb", ".php", ".pl",
            ".html", ".css", ".json", ".toml", ".md", ".yaml", ".yml",
            ".conf", ".ini", ".sh"} |->
        CASE x = ".py" -> "python"
          [] x = ".js" -> "javascript"
          [] x = ".ts" -> "typescript"
          [] x \in {".c", ".h"} -> "c"
          [] x \in {".cpp", ".hpp"} -> "c++"
          [] x = ".cs" -> "csharp"
          [] x = ".rb" -> "ruby"
          [] x = ".pl" -> "perl"
          [] x = ".md" -> "markdown"
          [] x \in {".yaml", ".yml"} -> "yaml"
          [] x = ".conf" -> "config"
          [] x = ".sh" -> "shell"
          [] OTHER -> SubSeq(x, 2, Len(x))]

\* pathspec's normalize_file: a leading "/" or "./" is dropped.
NormalizeFile(path) ==
    IF StartsWith(path, "/") THEN SubSeq(path, 2, Len(path))
    ELSE IF StartsWith(path, "./") THEN SubSeq(path, 3, Len(path))
    ELSE path

\* One path component against one glob without "/": a leading "*" matches
\* any run of characters, every other character matches itself.
GlobMatch(glob, name) ==
    IF StartsWith(glob, "*") THEN EndsWith(name, SubSeq(glob, 2, Len(glob)))
    ELSE name = glob

\* GitWildMatchPattern of one .gitignore line: is_pattern is FALSE for a line
\* that is no pattern (include is None); include is FALSE for a "!" pattern.
CompilePattern(line) ==
    LET negated == StartsWith(line, "!")
        body == IF negated THEN SubSeq(line, 2, Len(line)) ELSE line
    IN  IF line = "" \/ StartsWith(line, "#")
        THEN [is_pattern |-> FALSE, include |-> FALSE, glob |-> "",
              dir_only |-> FALSE, anchored |-> FALSE]
        ELSE LET dir_only == EndsWith(body, "/")
                 b1 == IF dir_only THEN SubSeq(body, 1, Len(body) - 1) ELSE body
                 anchored == StartsWith(b1, "/")
                 b2 == IF anchored THEN SubSeq(b1, 2, Len(b1)) ELSE b1
             IN  [is_pattern |-> TRUE, include |-> ~negated, glob |-> b2,
                  dir_only |-> dir_only, anchored |-> anchored]

\* pathspec.PathSpec.from_lines
PathSpecFromLines(lines) == [i \in 1..Len(lines) |-> CompilePattern(lines[i])]

\* Whether one compiled pattern matches a normalized path: an unanchored
\* pattern matches at any component, an anchored one at the first; a
\* pattern ending in "/" matches only what lies below the component.
PatternMatches(pat, norm_file) ==
    LET parts == Split(norm_file, "/")
        last == IF pat.dir_only THEN Len(parts) - 1 ELSE Len(parts)
        first == IF pat.anchored THEN {1} ELSE 1..Len(parts)
    IN  \E i \in first : i <= last /\ GlobMatch(pat.glob, parts[i])

\* PathSpec.match_file: the last pattern that matches decides.
MatchFile(spec, file_path) ==
    LET norm_file == NormalizeFile(file_path)
        hits == {i \in 1..Len(spec) :
                    /\ spec[i].is_pattern
                    /\ PatternMatches(spec[i], norm_file)}
    IN  IF hits = {} THEN FALSE ELSE spec[SetMax(hits)].include

\* should_include_path's specific_exclusions
specific_exclusions ==
    <<"build", "dist", "node_modules", "__pycache__", ".flat.md", ".lock",
      "-lock.json", ".hidden">>

\* should_include_path with `exclusion == file_path` for `exclusion in file_path`.
MutShouldIncludePathEquality(file_path, spec) ==
    IF \E i \in 1..Len(specific_exclusions) : file_path = specific_exclusions[i]
    THEN FALSE
    ELSE ~MatchFile(spec, file_path)

should_include_path(file_path, spec) ==
    IF \E i \in 1..Len(specific_exclusions) :
           Contains(file_path, specific_exclusions[i])
    THEN FALSE
    ELSE ~MatchFile(spec, file_path)

(***************************************************************************)
(* The state of one run of main.                                           *)
(***************************************************************************)
VARIABLES
    input_path,        \* args.input_path
    structure_only,    \* args.structure_only
    interactive_mode,  \* args.interactive
    repo,              \* the repository's entries, by path relative to its root
    gitignore,         \* the text of the repository's .gitignore ("" without one)
    pc,                \* where the run stands
    temp_dir,          \* main's temp_dir ("" before mkdtemp)
    temp_exists,       \* whether the scratch directory exists on disk
    root_folder,       \* the root_folder flatten_repo[_interactive] is given
    main_result,       \* "running", then "returned" or "raised"
    exc,               \* the exception main's handler caught ("" for none)
    readme_path,       \* find_readme's result
    opened,            \* whether the output file has been opened for writing
    flat_file,         \* the sections written to the output file, in order
    console,           \* the messages printed
    walk,              \* os.walk: the directories still to be visited
    filenames,         \* the paths the running loop has still to handle
    tree,              \* structure-only mode's tree
    paths,             \* InteractiveSelector.paths
    selected,          \* InteractiveSelector.selected
    cursor_position,   \* InteractiveSelector.cursor_position
    confirmed,         \* InteractiveSelector.confirmed
    cancelled,         \* InteractiveSelector.cancelled
    run_result,        \* what InteractiveSelector.run returned
    selected_paths,    \* what _get_selected_files returned
    ui,                \* how the selection step went
    calls,             \* the calls of should_include_path made by os.walk loops
    unreadable         \* the files whose open or read has raised

envVars == <<input_path, structure_only, interactive_mode, repo, gitignore>>

mainVars == <<temp_dir, temp_exists, root_folder, main_result, exc>>

outVars == <<opened, flat_file>>

walkVars == <<walk, filenames, tree, calls, unreadable>>

selVars ==
    <<paths, selected, cursor_position, confirmed, cancelled, run_result,
      selected_paths, ui>>

vars ==
    <<envVars, mainVars, outVars, walkVars, selVars, pc, readme_path, console>>

\* Python's None, where a value is None or a set.
None == [none |-> TRUE, value |-> {}]

Some(v) == [none |-> FALSE, value |-> v]

\* The sequences that list the set S once each: the orders in which
\* os.listdir or the iteration of a set may yield it.
Orderings(S) ==
    {f \in [1..Cardinality(S) -> S] : \A i, j \in DOMAIN f : i # j => f[i] # f[j]}

(***************************************************************************)
(* The file system below root_folder.                                      *)
(***************************************************************************)
\* The path of dirpath relative to the root, "" for the root itself.
RelOf(dirpath) ==
    IF dirpath = root_folder THEN "" ELSE RelPath(dirpath, root_folder)

\* os.listdir(dirpath), as a set of names.
ListDir(dirpath) == {BaseName(p) : p \in {q \in repo : DirName(q) = RelOf(dirpath)}}

\* os.path.isdir
IsDir(full_path) == RelOf(full_path) \in repo \cap UniverseDirs

\* os.path.isfile
IsFile(full_path) == RelOf(full_path) \in repo \cap UniverseFiles

\* load_gitignore_patterns with a default pattern list in place of [].
MutLoadGitignoreDefaultPatterns(root) ==
    IF IsFile(Join(root, ".gitignore")) THEN SplitLines(gitignore) ELSE <<"*.py">>

\* load_gitignore_patterns
load_gitignore_patterns(root) ==
    IF IsFile(Join(root, ".gitignore")) THEN SplitLines(gitignore) ELSE <<>>

\* The PathSpec flatten_repo and the selectors build from the .gitignore.
Spec_(root) == PathSpecFromLines(load_gitignore_patterns(root))

\* find_readme: the first name of os.listdir(root) that starts with
\* "readme" whatever its case; which one is first is up to the file system.
find_readme(root) ==
    LET hits == {f \in ListDir(root) : StartsWith(Lower(f), "readme")}
    IN  IF hits = {} THEN {""} ELSE {Join(root, f) : f \in hits}

\* str.replace(old, "")
RECURSIVE Remove(_, _)
Remove(s, old) ==
    IF Len(s) < Len(old) THEN s
    ELSE IF StartsWith(s, old) THEN Remove(SubSeq(s, Len(old) + 1, Len(s)), old)
    ELSE SubSeq(s, 1, 1) \o Remove(SubSeq(s, 2, Len(s)), old)

IsUrl(path) ==
    \/ StartsWith(path, "http://")
    \/ StartsWith(path, "https://")
    \/ StartsWith(path, "git@")

get_repo_name(path) ==
    IF IsUrl(path) THEN Remove(BaseName(path), ".git") ELSE BaseName(path)

(***************************************************************************)
(* The output document.                                                    *)
(***************************************************************************)
Section(kind, path, tag, contents_of) ==
    [kind |-> kind, path |-> path, tag |-> tag, contents_of |-> contents_of]

\* "# Contents of <repo_name> source tree"
TitleSection == Section("title", get_repo_name(input_path), "", "")

\* "## Folder Structure" and the opening fence
StructureSection == Section("structure", "", "", "")

\* "## README", fenced as markdown, holding the contents of the file.
ReadmeSection(full_path) == Section("readme", "", "markdown", RelOf(full_path))

\* The file section headed with full_path instead of the relative path.
MutFileSectionFullPathHeader(relative_path, full_path) ==
    Section("file", full_path, FILE_TYPES[SplitExt(relative_path)], RelOf(full_path))

\* "## File: <relative_path>", fenced with the file type, holding the contents.
FileSection(relative_path, full_path) ==
    Section("file", relative_path, FILE_TYPES[SplitExt(relative_path)],
            RelOf(full_path))

\* One line of the rendered tree: the guides and the connector, then the key.
TreeLine(lead, key) == Section("tree", key, lead, "")

(***************************************************************************)
(* Structure-only mode's tree: the nested dicts, kept as the list of their *)
(* keys in the order they were inserted, each with the path that leads to  *)
(* it; a file's value is None, a directory's a dict.                       *)
(***************************************************************************)
TreeKeys(t) == {t[i].path : i \in DOMAIN t}

\* The descent that creates no dict: `current_level[part] = {}` left out.
MutTreeMakeDirsCreatesNothing(t, parts, at) == t

\* current_level = tree; for part in parts: create the dict if it is
\* missing, and step into it.
RECURSIVE TreeMakeDirs(_, _, _)
TreeMakeDirs(t, parts, at) ==
    IF parts = <<>> THEN t
    ELSE LET key == Join(at, Head(parts))
             t1 == IF key \in TreeKeys(t) THEN t
                   ELSE Append(t, [path |-> key, is_file |-> FALSE])
         IN  TreeMakeDirs(t1, Tail(parts), key)

\* current_level[filename] = None
TreeSetFile(t, key) ==
    IF key \in TreeKeys(t)
    THEN [i \in DOMAIN t |-> IF t[i].path = key THEN [t[i] EXCEPT !.is_file = TRUE] ELSE t[i]]
    ELSE Append(t, [path |-> key, is_file |-> TRUE])

RECURSIVE TreeSetFiles(_, _)
TreeSetFiles(t, keys) ==
    IF keys = <<>> THEN t ELSE TreeSetFiles(TreeSetFile(t, Head(keys)), Tail(keys))

\* list(tree.keys()) of the dict at `at`.
TreeChildren(t, at) ==
    SelectSeq(t, LAMBDA n : DirName(n.path) = at)

\* The box-drawing strings of print_tree, written in ASCII.
ConnectorLast == "\\-- "

ConnectorMid == "+-- "

GuideMid == "|   "

GuideLast == "    "

\* print_tree with the branch connector for every item (`is_last_item`
\* not consulted for the connector).
RECURSIVE MutPrintTreeBranchConnectorOnly(_, _, _)
MutPrintTreeBranchConnectorOnly(t, prefix, at) ==
    LET keys == TreeChildren(t, at)
        Line(i) ==
            LET is_last_item == i = Len(keys)
                line == TreeLine(prefix \o ConnectorMid, BaseName(keys[i].path))
                next_prefix == prefix \o (IF is_last_item THEN GuideLast ELSE GuideMid)
            IN  IF keys[i].is_file THEN <<line>>
                ELSE <<line>> \o MutPrintTreeBranchConnectorOnly(t, next_prefix, keys[i].path)
        Lines[i \in 0..Len(keys)] == IF i = 0 THEN <<>> ELSE Lines[i - 1] \o Line(i)
    IN  Lines[Len(keys)]

\* print_tree: one line per key, its children's lines right below it.
RECURSIVE print_tree(_, _, _)
print_tree(t, prefix, at) ==
    LET keys == TreeChildren(t, at)
        Line(i) ==
            LET is_last_item == i = Len(keys)
                line == TreeLine(prefix \o (IF is_last_item THEN ConnectorLast ELSE ConnectorMid),
                                 BaseName(keys[i].path))
                next_prefix == prefix \o (IF is_last_item THEN GuideLast ELSE GuideMid)
            IN  IF keys[i].is_file THEN <<line>>
                ELSE <<line>> \o print_tree(t, next_prefix, keys[i].path)
        Lines[i \in 0..Len(keys)] == IF i = 0 THEN <<>> ELSE Lines[i - 1] \o Line(i)
    IN  Lines[Len(keys)]

(***************************************************************************)
(* The initial state: main is about to start on some command line and some *)
(* repository.                                                             *)
(***************************************************************************)
Init ==
    /\ input_path \in InputPaths
    /\ structure_only \in BOOLEAN
    /\ interactive_mode \in BOOLEAN
    /\ repo \in Repos
    /\ gitignore \in (IF ".gitignore" \in repo THEN GitignoreTexts ELSE {""})
    /\ pc = "main"
    /\ temp_dir = ""
    /\ temp_exists = FALSE
    /\ root_folder = ""
    /\ main_result = "running"
    /\ exc = ""
    /\ readme_path = ""
    /\ opened = FALSE
    /\ flat_file = <<>>
    /\ console = {}
    /\ walk = <<>>
    /\ filenames = {}
    /\ tree = <<>>
    /\ calls = {}
    /\ unreadable = {}
    /\ paths = <<>>
    /\ selected = {}
    /\ cursor_position = 0
    /\ confirmed = FALSE
    /\ cancelled = FALSE
    /\ run_result = [returned |-> FALSE, success |-> FALSE, selected_paths |-> {}]
    /\ selected_paths = None
    /\ ui = "none"

\* A message on the console.
Msg(kind, about) == [kind |-> kind, about |-> about]

(***************************************************************************)
(* flatten_repo.py: main.                                                  *)
(***************************************************************************)
\* Where main goes on when the flatten step has returned or raised: to the
\* finally clause of a URL run, else to its end.
AfterFlatten == IF IsUrl(input_path) THEN "finally" ELSE "return"

\* main up to the clone: a URL gets a scratch directory from mkdtemp, a
\* local path is flattened where it is.
Main ==
    /\ pc = "main"
    /\ IF IsUrl(input_path)
       THEN /\ temp_dir' \in TempDirs
            /\ temp_exists' = TRUE
            /\ pc' = "clone"
            /\ UNCHANGED root_folder
       ELSE /\ root_folder' = input_path
            /\ pc' = "flatten"
            /\ UNCHANGED <<temp_dir, temp_exists>>
    /\ UNCHANGED <<envVars, main_result, exc, outVars, walkVars, selVars,
                   readme_path, console>>

\* Repo.clone_from: the repository appears in the scratch directory, or the
\* clone raises.
Clone ==
    /\ pc = "clone"
    /\ \/ /\ root_folder' = temp_dir
          /\ pc' = "flatten"
          /\ UNCHANGED exc
       \/ /\ exc' = "GitCommandError"
          /\ pc' = "except"
          /\ UNCHANGED root_folder
    /\ UNCHANGED <<envVars, temp_dir, temp_exists, main_result, outVars,
                   walkVars, selVars, readme_path, console>>

\* main with the rmtree at the end of the try body instead of in finally.
MutExceptSkipsCleanup ==
    /\ pc = "except"
    /\ console' = console \cup {Msg("Error", exc)}
    /\ pc' = "return"
    /\ UNCHANGED <<envVars, mainVars, outVars, walkVars, selVars, readme_path>>

\* except Exception as e: the error is printed, and nothing is raised again.
Except ==
    /\ pc = "except"
    /\ console' = console \cup {Msg("Error", exc)}
    /\ pc' = AfterFlatten
    /\ UNCHANGED <<envVars, mainVars, outVars, walkVars, selVars, readme_path>>

\* finally: shutil.rmtree(temp_dir)
Finally ==
    /\ pc = "finally"
    /\ temp_exists' = FALSE
    /\ console' = console \cup {Msg("Deleted temporary directory", temp_dir)}
    /\ pc' = "return"
    /\ UNCHANGED <<envVars, temp_dir, root_folder, main_result, exc, outVars,
                   walkVars, selVars, readme_path>>

\* main with a handler that raises again what it caught.
MutMainOutcomeReraises(caught) == IF caught # "" THEN "raised" ELSE "returned"

\* How main ends once its handlers have run: the handler of lines 662-663
\* has swallowed whatever was raised, so main returns.
MainOutcome(caught) == "returned"

MainEnd ==
    /\ pc = "return"
    /\ main_result' = MainOutcome(exc)
    /\ pc' = "done"
    /\ UNCHANGED <<envVars, temp_dir, temp_exists, root_folder, exc, outVars,
                   walkVars, selVars, readme_path, console>>

(***************************************************************************)
(* source_repo_flattener.py: flatten_repo.                                 *)
(***************************************************************************)
\* What flatten_repo writes before it looks at any file.
DocumentHead ==
    <<TitleSection>> \o (IF structure_only THEN <<StructureSection>> ELSE <<>>)

\* Line 129 with `if readme_path:`.
MutHandlesReadmeInEveryMode(readme, structure) == readme # ""

\* Line 129: `if readme_path and not structure_only`.
HandlesReadme(readme, structure) == readme # "" /\ ~structure

\* flatten_repo up to its os.walk loop: find the README, open the output
\* file, write the head and the README section.  open(readme_path) and
\* read() raise for a directory, and may raise for a file (no permission,
\* not text); nothing in flatten_repo catches that.
FlattenRepoOpen ==
    /\ pc = "flatten"
    /\ ~interactive_mode
    /\ \E r \in find_readme(root_folder) :
        /\ readme_path' = r
        /\ opened' = TRUE
        /\ \/ /\ ~HandlesReadme(r, structure_only)
              /\ flat_file' = DocumentHead
              /\ walk' = <<root_folder>>
              /\ pc' = "walk"
              /\ UNCHANGED <<exc, console, unreadable>>
           \/ /\ HandlesReadme(r, structure_only)
              /\ IsFile(r)
              /\ flat_file' = DocumentHead \o <<ReadmeSection(r)>>
              /\ console' = console \cup {Msg("Included README file", r)}
              /\ walk' = <<root_folder>>
              /\ pc' = "walk"
              /\ UNCHANGED <<exc, unreadable>>
           \/ /\ HandlesReadme(r, structure_only)
              /\ flat_file' = DocumentHead
              /\ unreadable' = unreadable \cup {r}
              /\ exc' = "cannot read"
              /\ pc' = "except"
              /\ UNCHANGED <<walk, console>>
    /\ UNCHANGED <<envVars, temp_dir, temp_exists, root_folder, main_result,
                   filenames, tree, calls, selVars>>

\* The calls of should_include_path one os.walk iteration makes.
FilterCalls(dirpath, names, spec) ==
    {[file_path |-> Join(dirpath, n),
      result |-> should_include_path(Join(dirpath, n), spec)] : n \in names}

\* One iteration of flatten_repo's os.walk loop, up to its loop over the
\* files: dirnames and filenames are filtered in place, so os.walk descends
\* only into the directories that are left.  In structure-only mode the
\* iteration ends here, with the directory and its files put into the tree.
WalkDir ==
    /\ pc = "walk"
    /\ filenames = {}
    /\ walk # <<>>
    /\ LET dirpath == Head(walk)
           spec == Spec_(root_folder)
           names == ListDir(dirpath)
           dirnames == {d \in names : /\ IsDir(Join(dirpath, d))
                                      /\ should_include_path(Join(dirpath, d), spec)}
           fnames == {f \in names : /\ IsFile(Join(dirpath, f))
                                    /\ should_include_path(Join(dirpath, f), spec)}
           rel_path == RelPath(dirpath, root_folder)
       IN  /\ calls' = calls \cup FilterCalls(dirpath, names, spec)
           /\ UNCHANGED unreadable
           /\ \E order \in Orderings(dirnames) :
                walk' = [i \in DOMAIN order |-> Join(dirpath, order[i])] \o Tail(walk)
           /\ IF ~structure_only
              THEN /\ filenames' = {Join(dirpath, f) : f \in fnames}
                   /\ tree' = tree
              ELSE /\ filenames' = {}
                   /\ IF dirpath = root_folder \/ rel_path = "."
                      THEN tree' = tree
                      ELSE \E order \in Orderings(fnames) :
                            tree' = TreeSetFiles(
                                        TreeMakeDirs(tree, Split(rel_path, "/"), ""),
                                        [i \in DOMAIN order |-> Join(rel_path, order[i])])
    /\ UNCHANGED <<envVars, mainVars, outVars, selVars, pc, readme_path, console>>

\* Lines 255-257 without `full_path != readme_path`.
MutWantedByWalkNoReadmeCheck(full_path, readme) ==
    SplitExt(BaseName(full_path)) \in DOMAIN FILE_TYPES

\* Lines 255-257: whether the loop writes a section for the file.
WantedByWalk(full_path, readme) ==
    LET extension == SplitExt(BaseName(full_path))
    IN  extension \in DOMAIN FILE_TYPES /\ full_path # readme

\* One iteration of the loop over an os.walk iteration's files (content
\* mode): a file of a known type other than the README is read and written
\* as a section; a read that raises ends flatten_repo.
WalkFile ==
    /\ pc = "walk"
    /\ filenames # {}
    /\ \E full_path \in filenames :
        LET wanted == WantedByWalk(full_path, readme_path)
        IN  \/ /\ ~wanted
               /\ filenames' = filenames \ {full_path}
               /\ UNCHANGED <<flat_file, console, exc, pc, unreadable>>
            \/ /\ wanted
               /\ filenames' = filenames \ {full_path}
               /\ flat_file' = Append(flat_file,
                                  FileSection(RelPath(full_path, root_folder), full_path))
               /\ console' = console \cup {Msg("Included file", full_path)}
               /\ UNCHANGED <<exc, pc, unreadable>>
            \/ /\ wanted
               /\ unreadable' = unreadable \cup {full_path}
               /\ exc' = "cannot read"
               /\ pc' = "except"
               /\ UNCHANGED <<filenames, flat_file, console>>
    /\ UNCHANGED <<envVars, temp_dir, temp_exists, root_folder, main_result,
                   opened, walk, tree, calls, selVars, readme_path>>

\* The end of flatten_repo.  Structure-only mode adds the root's files to
\* the tree, after the directories, and writes the rendered tree.
WalkEnd ==
    /\ pc = "walk"
    /\ filenames = {}
    /\ walk = <<>>
    /\ IF ~structure_only
       THEN UNCHANGED <<flat_file, tree, calls>>
       ELSE LET spec == Spec_(root_folder)
                files == {f \in ListDir(root_folder) : IsFile(Join(root_folder, f))}
                root_files == {f \in files :
                                  should_include_path(Join(root_folder, f), spec)}
            IN  /\ calls' = calls \cup FilterCalls(root_folder, files, spec)
                /\ \E order \in Orderings(root_files) :
                    /\ tree' = TreeSetFiles(tree, order)
                    /\ flat_file' = flat_file \o print_tree(tree', "", "")
    /\ console' = console \cup {Msg("Flattening complete", "")}
    /\ pc' = AfterFlatten
    /\ UNCHANGED <<envVars, mainVars, opened, walk, filenames, unreadable, selVars,
                   readme_path>>

(***************************************************************************)
(* flatten_repo.py: InteractiveSelector, _get_selected_files and           *)
(* _fallback_simple_selection.                                             *)
(***************************************************************************)
\* The os.walk loop of _scan_folder and of _fallback_simple_selection, from
\* dirpath down: the relative paths of the directories and files that pass
\* the filter, below directories that passed it.
RECURSIVE ScanFrom(_, _)
ScanFrom(dirpath, spec) ==
    LET names == ListDir(dirpath)
        dirnames == {d \in names : /\ IsDir(Join(dirpath, d))
                                   /\ should_include_path(Join(dirpath, d), spec)}
        fnames == {f \in names : /\ IsFile(Join(dirpath, f))
                                 /\ should_include_path(Join(dirpath, f), spec)}
    IN  {RelPath(Join(dirpath, n), root_folder) : n \in dirnames \cup fnames}
            \cup UNION {ScanFrom(Join(dirpath, d), spec) : d \in dirnames}

\* _scan_folder without its loop over dirnames (lines 219-224).
MutScanFolderFilesOnly ==
    {p \in ScanFrom(root_folder, Spec_(root_folder)) : IsFile(Join(root_folder, p))}

\* InteractiveSelector._scan_folder: every path found is selected, and the
\* list of them is sorted.
ScanFolder == ScanFrom(root_folder, Spec_(root_folder))

\* run with `return self.confirmed, self.selected` on every path.
MutRunReturnsSelection(success, how) ==
    /\ run_result' = [returned |-> TRUE, success |-> success,
                      selected_paths |-> selected']
    /\ ui' = how
    /\ IF success /\ selected' # {}
       THEN /\ selected_paths' = Some(selected')
            /\ pc' = "interactive"
            /\ UNCHANGED console
       ELSE IF success
       THEN /\ console' = console \cup {Msg("Warning: No files were selected", "")}
            /\ pc' = "confirm"
            /\ UNCHANGED selected_paths
       ELSE /\ console' = console \cup {Msg("Operation canceled by user", "")}
            /\ selected_paths' = None
            /\ pc' = AfterFlatten

\* What run and _get_selected_files do once the application has exited, or
\* has raised (run catches that and answers as for a cancel): a confirmed,
\* non-empty selection is returned; a confirmed empty one is asked about;
\* anything else is reported as cancelled, and flatten_repo_interactive
\* returns without a document.
RunReturns(success, how) ==
    /\ run_result' = [returned |-> TRUE, success |-> success,
                      selected_paths |-> IF success THEN selected' ELSE {}]
    /\ ui' = how
    /\ IF success /\ selected' # {}
       THEN /\ selected_paths' = Some(selected')
            /\ pc' = "interactive"
            /\ UNCHANGED console
       ELSE IF success
       THEN /\ console' = console \cup {Msg("Warning: No files were selected", "")}
            /\ pc' = "confirm"
            /\ UNCHANGED selected_paths
       ELSE /\ console' = console \cup {Msg("Operation canceled by user", "")}
            /\ selected_paths' = None
            /\ pc' = AfterFlatten

\* _get_selected_files up to the running application: InteractiveSelector
\* is constructed, which scans the folder, and run starts the application
\* unless there is no path to show.  A constructor that raises sends
\* _get_selected_files to its fallback.
SelectorStart ==
    /\ pc = "flatten"
    /\ interactive_mode
    /\ \/ /\ paths' = SortedList(ScanFolder)
          /\ selected' = ScanFolder
          /\ cursor_position' = 0
          /\ IF paths' = <<>>
             THEN RunReturns(FALSE, "no paths")
             ELSE /\ pc' = "ui"
                  /\ UNCHANGED <<run_result, selected_paths, ui, console>>
       \/ /\ ui' = "constructor raised"
          /\ console' = console \cup {Msg("Falling back to simple selection mode", "")}
          /\ pc' = "fallback"
          /\ UNCHANGED <<paths, selected, cursor_position, run_result, selected_paths>>
    /\ UNCHANGED <<envVars, mainVars, outVars, walkVars, confirmed, cancelled,
                   readme_path>>

uiFrame ==
    <<envVars, mainVars, outVars, walkVars, paths, confirmed, cancelled,
      run_result, selected_paths, ui, pc, readme_path, console>>

KeyUp ==
    /\ pc = "ui"
    /\ cursor_position' = IF cursor_position - 1 > 0 THEN cursor_position - 1 ELSE 0
    /\ UNCHANGED <<uiFrame, selected>>

\* down without the min against len(self.paths) - 1.
MutKeyDownUnclamped ==
    /\ pc = "ui"
    /\ cursor_position' = cursor_position + 1
    /\ UNCHANGED <<uiFrame, selected>>

KeyDown ==
    /\ pc = "ui"
    /\ cursor_position' = IF cursor_position + 1 < Len(paths) - 1
                          THEN cursor_position + 1 ELSE Len(paths) - 1
    /\ UNCHANGED <<uiFrame, selected>>

\* space with `self.paths[0]` for `self.paths[self.cursor_position]`.
MutKeySpaceTogglesFirstPath ==
    /\ pc = "ui"
    /\ IF paths # <<>>
       THEN LET path == paths[1]
            IN  selected' = IF path \in selected THEN selected \ {path}
                            ELSE selected \cup {path}
       ELSE UNCHANGED selected
    /\ UNCHANGED <<uiFrame, cursor_position>>

KeySpace ==
    /\ pc = "ui"
    /\ IF paths # <<>>
       THEN LET path == paths[cursor_position + 1]
            IN  selected' = IF path \in selected THEN selected \ {path}
                            ELSE selected \cup {path}
       ELSE UNCHANGED selected
    /\ UNCHANGED <<uiFrame, cursor_position>>

KeyA ==
    /\ pc = "ui"
    /\ selected' = Range(paths)
    /\ UNCHANGED <<uiFrame, cursor_position>>

KeyU ==
    /\ pc = "ui"
    /\ selected' = {}
    /\ UNCHANGED <<uiFrame, cursor_position>>

\* enter: confirmed is set and the application exits, so run returns.  The
\* selector is a local of _get_selected_files (line 339) and nothing reads
\* its cursor once the application has exited: the cursor goes with it.
KeyEnter ==
    /\ pc = "ui"
    /\ confirmed' = TRUE
    /\ UNCHANGED selected
    /\ cursor_position' = 0
    /\ RunReturns(confirmed', "confirmed")
    /\ UNCHANGED <<envVars, mainVars, outVars, walkVars, paths,
                   cancelled, readme_path>>

\* escape and c-c: cancelled is set and the application exits.
KeyEscape ==
    /\ pc = "ui"
    /\ cancelled' = TRUE
    /\ UNCHANGED selected
    /\ cursor_position' = 0
    /\ RunReturns(confirmed, "cancelled")
    /\ UNCHANGED <<envVars, mainVars, outVars, walkVars, paths,
                   confirmed, readme_path>>

\* application.run() raises (no usable terminal, say): run catches it,
\* prints the error and returns (False, set()).
ApplicationRaises ==
    /\ pc = "ui"
    /\ UNCHANGED selected
    /\ cursor_position' = 0
    /\ RunReturns(FALSE, "application raised")
    /\ UNCHANGED <<envVars, mainVars, outVars, walkVars, paths,
                   confirmed, cancelled, readme_path>>

\* The prompt with `return selected` for the answer no as well.
MutConfirmAskIgnoresAnswer ==
    /\ pc = "confirm"
    /\ \/ /\ selected_paths' = Some(selected)
          /\ ui' = "confirmed empty"
          /\ pc' = "interactive"
          /\ UNCHANGED console
       \/ /\ selected_paths' = Some(selected)
          /\ ui' = "declined empty"
          /\ pc' = "interactive"
          /\ UNCHANGED console
       \/ /\ ui' = "prompt raised"
          /\ console' = console \cup {Msg("Falling back to simple selection mode", "")}
          /\ pc' = "fallback"
          /\ UNCHANGED selected_paths
    /\ UNCHANGED <<envVars, mainVars, outVars, walkVars, paths, selected,
                   cursor_position, confirmed, cancelled, run_result, readme_path>>

\* Confirm.ask("Continue with empty selection?"): yes, no, or the prompt
\* raises (no input to read), which sends _get_selected_files to its
\* fallback.
ConfirmAsk ==
    /\ pc = "confirm"
    /\ \/ /\ selected_paths' = Some(selected)
          /\ ui' = "confirmed empty"
          /\ pc' = "interactive"
          /\ UNCHANGED console
       \/ /\ selected_paths' = None
          /\ ui' = "declined empty"
          /\ console' = console \cup {Msg("Operation canceled by user", "")}
          /\ pc' = AfterFlatten
       \/ /\ ui' = "prompt raised"
          /\ console' = console \cup {Msg("Falling back to simple selection mode", "")}
          /\ pc' = "fallback"
          /\ UNCHANGED selected_paths
    /\ UNCHANGED <<envVars, mainVars, outVars, walkVars, paths, selected,
                   cursor_position, confirmed, cancelled, run_result, readme_path>>

\* What the user may type at the fallback's "Enter numbers to select".
SelectionInputs == {"1", "2, 1", "9", "x"}

Digits == "0123456789"

\* str.strip, of blanks.
RECURSIVE Strip(_)
Strip(s) ==
    IF StartsWith(s, " ") THEN Strip(SubSeq(s, 2, Len(s)))
    ELSE IF EndsWith(s, " ") THEN Strip(SubSeq(s, 1, Len(s) - 1))
    ELSE s

\* Whether int(s) returns rather than raising ValueError.
IsInt(s) ==
    LET body == IF StartsWith(s, "-") THEN SubSeq(s, 2, Len(s)) ELSE s
    IN  /\ body # ""
        /\ \A i \in 1..Len(body) : Contains(Digits, SubSeq(body, i, i))

RECURSIVE NatOf(_)
NatOf(s) ==
    IF s = "" THEN 0
    ELSE 10 * NatOf(SubSeq(s, 1, Len(s) - 1))
            + SetMin(Positions(Digits, SubSeq(s, Len(s), Len(s)))) - 1

\* int(s)
IntOf(s) == IF StartsWith(s, "-") THEN 0 - NatOf(SubSeq(s, 2, Len(s))) ELSE NatOf(s)

\* _fallback_simple_selection's answer to "s": None for an input that is
\* not all numbers, else the paths at the numbers that are in range.
SpecificSelection(path_list, selection_input) ==
    LET fields == Split(selection_input, ",")
    IN  IF \E k \in DOMAIN fields : ~IsInt(Strip(fields[k]))
        THEN None
        ELSE LET indices == {IntOf(Strip(fields[k])) - 1 : k \in DOMAIN fields}
             IN  Some({path_list[i + 1] : i \in {j \in indices : 0 <= j /\ j < Len(path_list)}})

\* _fallback_simple_selection: the same walk, the sorted table, and the
\* menu: a (all), n (none), s (the numbers typed), c (cancel).
FallbackSimpleSelection ==
    /\ pc = "fallback"
    /\ paths' = SortedList(ScanFolder)
    /\ \/ /\ paths' = <<>>
          /\ selected_paths' = None
          /\ ui' = "fallback: no paths"
       \/ /\ paths' # <<>>
          /\ \/ /\ selected_paths' = Some(Range(paths'))
                /\ ui' = "fallback: a"
             \/ /\ selected_paths' = Some({})
                /\ ui' = "fallback: n"
             \/ /\ \E selection_input \in SelectionInputs :
                      selected_paths' = SpecificSelection(paths', selection_input)
                /\ ui' = "fallback: s"
             \/ /\ selected_paths' = None
                /\ ui' = "fallback: c"
    /\ IF selected_paths'.none
       THEN /\ console' = console \cup {Msg("Operation canceled by user", "")}
            /\ pc' = AfterFlatten
       ELSE /\ pc' = "interactive"
            /\ UNCHANGED console
    /\ UNCHANGED <<envVars, mainVars, outVars, walkVars, selected, cursor_position,
                   confirmed, cancelled, run_result, readme_path>>

(***************************************************************************)
(* flatten_repo.py: flatten_repo_interactive, once it has a selection.     *)
(***************************************************************************)
\* The first loop over selected_paths: the selected directories.
RECURSIVE TreeAddSelectedDirs(_, _)
TreeAddSelectedDirs(t, order) ==
    IF order = <<>> THEN t
    ELSE LET path == Head(order)
             t1 == IF IsDir(Join(root_folder, path))
                   THEN TreeMakeDirs(t, Split(path, "/"), "")
                   ELSE t
         IN  TreeAddSelectedDirs(t1, Tail(order))

\* The second loop with `current[part] = {}` for every parent, present or
\* not: what the directory held is dropped.
RECURSIVE MutTreeAddSelectedFilesResetsParents(_, _)
MutTreeAddSelectedFilesResetsParents(t, order) ==
    IF order = <<>> THEN t
    ELSE LET path == Head(order)
             parts == Split(path, "/")
             kept == SelectSeq(t, LAMBDA n : ~StartsWith(n.path, DirName(path) \o "/"))
             t1 == IF ~IsDir(Join(root_folder, path))
                   THEN TreeSetFile(
                            TreeMakeDirs(kept, SubSeq(parts, 1, Len(parts) - 1), ""), path)
                   ELSE t
         IN  MutTreeAddSelectedFilesResetsParents(t1, Tail(order))

\* The second loop over selected_paths: the selected files, each below the
\* directories its path names.
RECURSIVE TreeAddSelectedFiles(_, _)
TreeAddSelectedFiles(t, order) ==
    IF order = <<>> THEN t
    ELSE LET path == Head(order)
             parts == Split(path, "/")
             t1 == IF ~IsDir(Join(root_folder, path))
                   THEN TreeSetFile(
                            TreeMakeDirs(t, SubSeq(parts, 1, Len(parts) - 1), ""), path)
                   ELSE t
         IN  TreeAddSelectedFiles(t1, Tail(order))

\* flatten_repo_interactive from the selection to its loop over the
\* selected files: find the README, open the output file, write the head.
\* Structure-only mode builds and writes the tree, and is done.  Content
\* mode writes the README section if the README is selected: a README that
\* is not text is skipped with a warning (UnicodeDecodeError is caught), an
\* open that raises is not caught.
InteractiveOpen ==
    /\ pc = "interactive"
    /\ \E r \in find_readme(root_folder) :
        LET readme_rel_path == RelPath(r, root_folder)
            has_readme == r # "" /\ readme_rel_path \in selected_paths.value
        IN  /\ readme_path' = r
            /\ opened' = TRUE
            /\ \/ /\ structure_only
                  /\ \E order \in Orderings(selected_paths.value) :
                        tree' = TreeAddSelectedFiles(TreeAddSelectedDirs(<<>>, order), order)
                  /\ flat_file' = DocumentHead \o print_tree(tree', "", "")
                  /\ console' = console \cup {Msg("Flattening complete", "")}
                  /\ pc' = AfterFlatten
                  /\ UNCHANGED <<filenames, exc, unreadable>>
               \/ /\ ~structure_only
                  /\ ~has_readme
                  /\ flat_file' = DocumentHead
                  /\ filenames' = selected_paths.value
                  /\ pc' = "files"
                  /\ UNCHANGED <<tree, console, exc, unreadable>>
               \/ /\ ~structure_only
                  /\ has_readme
                  /\ IsFile(r)
                  /\ flat_file' = DocumentHead \o <<ReadmeSection(r)>>
                  /\ console' = console \cup {Msg("Included README file", r)}
                  /\ filenames' = selected_paths.value
                  /\ pc' = "files"
                  /\ UNCHANGED <<tree, exc, unreadable>>
               \/ /\ ~structure_only
                  /\ has_readme
                  /\ IsFile(r)
                  /\ flat_file' = DocumentHead
                  /\ unreadable' = unreadable \cup {r}
                  /\ console' = console \cup {Msg("Warning: README skipped", r)}
                  /\ filenames' = selected_paths.value
                  /\ pc' = "files"
                  /\ UNCHANGED <<tree, exc>>
               \/ /\ ~structure_only
                  /\ has_readme
                  /\ flat_file' = DocumentHead
                  /\ unreadable' = unreadable \cup {r}
                  /\ exc' = "cannot open"
                  /\ pc' = "except"
                  /\ UNCHANGED <<tree, console, filenames>>
    /\ UNCHANGED <<envVars, temp_dir, temp_exists, root_folder, main_result,
                   walk, calls, selVars>>

\* Lines 601-604: whether the loop writes a section for the selected path.
WantedBySelection(path, readme) ==
    LET full_path == Join(root_folder, path)
        extension == SplitExt(path)
    IN  /\ IsFile(full_path)
        /\ full_path # readme
        /\ extension \in DOMAIN FILE_TYPES

\* One iteration of the loop over selected_paths (content mode): a selected
\* file of a known type other than the README is read and written as a
\* section; one that cannot be opened or is not text is skipped with a
\* warning.
InteractiveFile ==
    /\ pc = "files"
    /\ filenames # {}
    /\ \E path \in filenames :
        LET full_path == Join(root_folder, path)
            wanted == WantedBySelection(path, readme_path)
        IN  /\ filenames' = filenames \ {path}
            /\ \/ /\ ~wanted
                  /\ UNCHANGED <<flat_file, console, unreadable>>
               \/ /\ wanted
                  /\ flat_file' = Append(flat_file, FileSection(path, full_path))
                  /\ console' = console \cup {Msg("Included file", full_path)}
                  /\ UNCHANGED unreadable
               \/ /\ wanted
                  /\ \E kind \in {"Skipping binary file", "Error reading file"} :
                        console' = console \cup {Msg(kind, full_path)}
                  /\ unreadable' = unreadable \cup {full_path}
                  /\ UNCHANGED flat_file
    /\ UNCHANGED <<envVars, mainVars, opened, walk, tree, calls, selVars, pc,
                   readme_path>>

\* The end of flatten_repo_interactive in content mode.
InteractiveEnd ==
    /\ pc = "files"
    /\ filenames = {}
    /\ console' = console \cup {Msg("Flattening complete", "")}
    /\ pc' = AfterFlatten
    /\ UNCHANGED <<envVars, mainVars, outVars, walkVars, selVars, readme_path>>

Next ==
    \/ Main
    \/ Clone
    \/ Except
    \/ Finally
    \/ MainEnd
    \/ FlattenRepoOpen
    \/ WalkDir
    \/ WalkFile
    \/ WalkEnd
    \/ SelectorStart
    \/ KeyUp
    \/ KeyDown
    \/ KeySpace
    \/ KeyA
    \/ KeyU
    \/ KeyEnter
    \/ KeyEscape
    \/ ApplicationRaises
    \/ ConfirmAsk
    \/ FallbackSimpleSelection
    \/ InteractiveOpen
    \/ InteractiveFile
    \/ InteractiveEnd

Spec == Init /\ [][Next]_vars

(***************************************************************************)
(* The claims.                                                             *)
(***************************************************************************)
\* The built-in substrings, as the specification lists them.
BuiltinSubstrings ==
    {"build", "dist", "node_modules", "__pycache__", ".flat.md", ".lock",
     "-lock.json", ".hidden"}

\* s holds one of the built-in substrings somewhere.
HasBuiltinSubstring(s) ==
    \E b \in BuiltinSubstrings :
        \E i \in 1..Len(s) :
            /\ i + Len(b) - 1 <= Len(s)
            /\ SubSeq(s, i, i + Len(b) - 1) = b

\* The rule sets a repository of the model may have.
RuleSets ==
    {PathSpecFromLines(SplitLines(text)) : text \in GitignoreTexts \cup {""}}

\* C1: every call of should_include_path on a path that holds a built-in
\* substring answered False, and would under any rule set; every call on a
\* path that holds none answered True exactly when the rule set does not
\* match the path.
C1_FilterDecision ==
    \A c \in calls :
        IF HasBuiltinSubstring(c.file_path)
        THEN /\ c.result = FALSE
             /\ \A rules \in RuleSets : ~should_include_path(c.file_path, rules)
        ELSE c.result = ~MatchFile(Spec_(root_folder), c.file_path)

\* C1's case: the ignore file re-includes .hidden_file.py with a "!"
\* pattern, the filter was asked about it and excluded it all the same, and
\* it was asked about a path it included.
C1_Witness ==
    /\ gitignore = "*.py\n!.hidden_file.py\n"
    /\ \E c \in calls :
        /\ EndsWith(c.file_path, ".hidden_file.py")
        /\ ~MatchFile(Spec_(root_folder), c.file_path)
        /\ c.result = FALSE
    /\ \E c \in calls : c.result = TRUE

\* The positions in the document of the sections of one kind.
SectionsOfKind(kind) == {i \in DOMAIN flat_file : flat_file[i].kind = kind}

\* The document is complete: the flatten step ran to its end.
Complete == Msg("Flattening complete", "") \in console

\* A README was found and is included: it passes the filter
\* (flatten_repo), it is in the selection (flatten_repo_interactive).
ReadmeIncluded ==
    /\ readme_path # ""
    /\ IF interactive_mode
       THEN ~selected_paths.none /\ RelOf(readme_path) \in selected_paths.value
       ELSE should_include_path(readme_path, Spec_(root_folder))

\* Every README section comes before every file section, and no file
\* section is the README's.
ReadmeFirstAndNotAFile ==
    /\ \A i \in SectionsOfKind("readme") : \A j \in SectionsOfKind("file") : i < j
    /\ \A j \in SectionsOfKind("file") :
        Join(root_folder, flat_file[j].contents_of) # readme_path

\* C2, as stated: in content mode, a complete document of a repository
\* whose README is included has exactly one README section, before every
\* file section, and no file section for the README.
C2_Original ==
    (opened /\ ~structure_only /\ ReadmeIncluded /\ Complete) =>
        /\ Cardinality(SectionsOfKind("readme")) = 1
        /\ ReadmeFirstAndNotAFile

\* C2, amended: in content mode, once the output file is open, a README
\* that is included has exactly one README section if it could be read and
\* none if it could not; every README section comes before every file
\* section, and the README has no file section.
C2_ReadmeOnceAndFirst ==
    (opened /\ ~structure_only /\ ReadmeIncluded) =>
        /\ Cardinality(SectionsOfKind("readme")) =
                (IF readme_path \in unreadable THEN 0 ELSE 1)
        /\ ReadmeFirstAndNotAFile

\* C2's case: a finished interactive content-mode run with the README
\* selected and written, and a file section after it.
C2_Witness ==
    /\ pc = "done"
    /\ interactive_mode
    /\ ~structure_only
    /\ ReadmeIncluded
    /\ Complete
    /\ SectionsOfKind("readme") # {}
    /\ SectionsOfKind("file") # {}

\* The recognized extensions, as the specification lists them.
KnownExtensions ==
    {".py", ".js", ".jsx", ".ts", ".tsx", ".swift", ".go", ".java", ".c",
     ".cpp", ".h", ".hpp", ".cs", ".lua", ".rb", ".php", ".pl", ".html", ".css",
     ".json", ".toml", ".md", ".yaml", ".yml", ".conf", ".ini", ".sh"}

\* C3, as stated: no section of the document, README section or file
\* section, holds the contents of a file whose extension is not recognized.
C3_Original ==
    \A i \in DOMAIN flat_file :
        flat_file[i].contents_of # "" =>
            SplitExt(flat_file[i].contents_of) \in KnownExtensions

\* C3, amended: the only section that may hold the contents of a file whose
\* extension is not recognized is the README section, holding the README.
C3_UnknownExtensionOnlyAsReadme ==
    \A i \in DOMAIN flat_file :
        (/\ flat_file[i].contents_of # ""
         /\ SplitExt(flat_file[i].contents_of) \notin KnownExtensions) =>
            /\ flat_file[i].kind = "readme"
            /\ Join(root_folder, flat_file[i].contents_of) = readme_path

\* C3's case: a finished content-mode run of flatten_repo on a repository
\* with notes.txt, which wrote a file section and none for notes.txt.
C3_Witness ==
    /\ pc = "done"
    /\ ~interactive_mode
    /\ ~structure_only
    /\ Complete
    /\ "notes.txt" \in repo
    /\ [file_path |-> Join(root_folder, "notes.txt"), result |-> TRUE] \in calls
    /\ SectionsOfKind("file") # {}

\* C4, as stated: a run in which a file could not be read still ends with
\* the flatten step complete, every file handled, nothing raised, and a
\* warning printed for each such file.
C4_UnreadableSkipped ==
    (pc = "done" /\ unreadable # {}) =>
        /\ Complete
        /\ exc = ""
        /\ filenames = {}
        /\ walk = <<>>
        /\ \A f \in unreadable :
            \E m \in console :
                /\ m.about = f
                /\ m.kind \in {"Skipping binary file", "Error reading file",
                               "Warning: README skipped"}

\* C5: for a URL input the scratch directory exists from mkdtemp on, through
\* the clone, the whole flatten step and main's error handler, and is gone
\* when main ends, however the flatten step ended.
C5_ScratchRemovedAfterFlatten ==
    IsUrl(input_path) =>
        /\ pc \in {"clone", "flatten", "walk", "ui", "confirm", "fallback",
                   "interactive", "files", "except", "finally"} =>
                (temp_dir # "" /\ temp_exists)
        /\ pc \in {"return", "done"} => (temp_dir # "" /\ ~temp_exists)

\* C5's case: a URL run whose flatten step raised has ended, and the
\* scratch directory is gone.
C5_Witness ==
    /\ IsUrl(input_path)
    /\ pc = "done"
    /\ exc = "cannot read"
    /\ opened
    /\ ~temp_exists

\* C6, as stated: after a failed clone main ends by raising, with the
\* scratch directory removed.
C6_Original ==
    (pc = "done" /\ exc = "GitCommandError") =>
        (main_result = "raised" /\ ~temp_exists)

\* C6, amended: after a failed clone main prints the error, removes the
\* scratch directory and returns normally, with no output file opened; and
\* main never ends a URL run with the scratch directory in place.
C6_CloneFailureReported ==
    /\ (pc = "done" /\ exc = "GitCommandError") =>
            /\ main_result = "returned"
            /\ Msg("Error", "GitCommandError") \in console
            /\ ~temp_exists
            /\ ~opened
    /\ (IsUrl(input_path) /\ main_result # "running") => ~temp_exists

\* C6's case: main has ended after a failed clone.
C6_Witness ==
    /\ pc = "done"
    /\ exc = "GitCommandError"
    /\ main_result # "running"

\* C7, as stated: when the full UI could not be constructed or its
\* application raised, _get_selected_files is in its fallback menu, and the
\* session has not been reported as cancelled.
C7_FallbackOnUiFailure ==
    ui \in {"constructor raised", "application raised"} =>
        /\ pc = "fallback"
        /\ Msg("Operation canceled by user", "") \notin console

\* C8, as stated: _get_selected_files returns an empty selection only after
\* the user has answered yes to "Continue with empty selection?", and an
\* interactive run opens the output file only with a selection.
C8_EmptyOnlyAfterConfirm ==
    /\ (~selected_paths.none /\ selected_paths.value = {}) => ui = "confirmed empty"
    /\ (interactive_mode /\ opened) => ~selected_paths.none

\* C9: a session is never both confirmed and cancelled; after a confirm run
\* has returned (True, the selection as it stood); after a cancel it has
\* returned (False, the empty set) and _get_selected_files None, with no
\* output file opened.
C9_ConfirmAndCancelDistinct ==
    /\ ~(confirmed /\ cancelled)
    /\ confirmed =>
        run_result = [returned |-> TRUE, success |-> TRUE, selected_paths |-> selected]
    /\ cancelled =>
        /\ run_result = [returned |-> TRUE, success |-> FALSE, selected_paths |-> {}]
        /\ selected_paths = None
        /\ ~opened

\* C9's case: a session cancelled with some but not all paths selected.
C9_Witness ==
    /\ cancelled
    /\ selected # {}
    /\ selected # Range(paths)
    /\ pc = "done"

\* C10, as stated: no section of the document names a path that holds
\* ".hidden" or holds the contents of a file at such a path.
C10_HiddenAbsent ==
    \A i \in DOMAIN flat_file :
        /\ ~Contains(flat_file[i].path, ".hidden")
        /\ ~Contains(flat_file[i].contents_of, ".hidden")

\* The directories above a relative path, nearest last.
Ancestors(p) == {SubSeq(p, 1, i - 1) : i \in Positions(p, "/")}

\* The path and every directory above it pass should_include_path.
Survives(p) ==
    \A q \in Ancestors(p) \cup {p} :
        should_include_path(Join(root_folder, q), Spec_(root_folder))

\* The entries of the repository that survive the filter.
Survivors == {p \in repo : Survives(p)}

\* The names on the lines of the rendered tree.
TreeLineNames == {flat_file[i].path : i \in SectionsOfKind("tree")}

\* C11: the structure-only document of flatten_repo starts with the title
\* and the `## Folder Structure` section, holds nothing but them and the
\* lines of the tree (no README section, no file section, no contents of
\* any file), and once complete its tree lines name the surviving entries.
C11_StructureOnlyNamesOnly ==
    (structure_only /\ ~interactive_mode /\ opened) =>
        /\ Len(flat_file) >= 2
        /\ flat_file[1].kind = "title"
        /\ flat_file[2].kind = "structure"
        /\ \A i \in DOMAIN flat_file :
            /\ flat_file[i].kind \in {"title", "structure", "tree"}
            /\ flat_file[i].contents_of = ""
        /\ Complete => TreeLineNames = {BaseName(p) : p \in Survivors}

\* C11's case: a finished structure-only run of flatten_repo reached
\* through main with a URL, on a repository with a README and a source
\* file, both named in the tree.
C11_Witness ==
    /\ structure_only
    /\ ~interactive_mode
    /\ IsUrl(input_path)
    /\ pc = "done"
    /\ Complete
    /\ readme_path = Join(root_folder, "README.md")
    /\ {"README.md", "src", "main.py"} \subseteq TreeLineNames

\* The files flatten_repo's per-file loop is to write: they survive the
\* filter, are not the README, and have a recognized extension.
ExpectedFiles ==
    {p \in Survivors \cap UniverseFiles :
        /\ Join(root_folder, p) # readme_path
        /\ SplitExt(BaseName(p)) \in KnownExtensions}

\* The paths in the headings of the file sections.
FileSectionPaths == {flat_file[j].path : j \in SectionsOfKind("file")}

\* C12: in non-interactive content mode every file section is headed with
\* the root-relative path of an expected file, is fenced with the tag
\* FILE_TYPES gives its extension and holds that file's contents; no file
\* has two sections; and when flatten_repo has run to its end every
\* expected file has its section.
C12_OneSectionPerIncludedFile ==
    (~structure_only /\ ~interactive_mode /\ opened) =>
        /\ \A j \in SectionsOfKind("file") :
            /\ flat_file[j].path \in ExpectedFiles
            /\ flat_file[j].contents_of = flat_file[j].path
            /\ flat_file[j].tag = FILE_TYPES[SplitExt(BaseName(flat_file[j].path))]
        /\ \A i, j \in SectionsOfKind("file") :
            flat_file[i].path = flat_file[j].path => i = j
        /\ Complete => FileSectionPaths = ExpectedFiles

\* C12's case: a finished content-mode run of flatten_repo that wrote the
\* section of a file in a directory, on a repository with a file it left
\* out.
C12_Witness ==
    /\ ~structure_only
    /\ ~interactive_mode
    /\ pc = "done"
    /\ Complete
    /\ "src/main.py" \in FileSectionPaths
    /\ (repo \cap UniverseFiles) \ FileSectionPaths # {}

\* C13: in non-interactive structure-only mode the tree never has an entry
\* for a path that does not survive the filter with all its ancestors;
\* when flatten_repo has run to its end the tree has an entry for exactly
\* the surviving entries, files as files and directories as directories
\* whether or not a file of theirs survived, and the rendered lines name
\* them.
C13_TreeIffSurvives ==
    (structure_only /\ ~interactive_mode) =>
        /\ TreeKeys(tree) \subseteq Survivors
        /\ Complete =>
            /\ TreeKeys(tree) = Survivors
            /\ \A i \in DOMAIN tree : tree[i].is_file <=> tree[i].path \in UniverseFiles
            /\ Len(tree) = Cardinality(Survivors)
            /\ TreeLineNames = {BaseName(p) : p \in Survivors}

\* C13's case: a finished structure-only run of flatten_repo on a
\* repository whose directory src survived and all of whose files were
\* filtered out: src has its entry, and nothing below it has.
C13_Witness ==
    /\ structure_only
    /\ ~interactive_mode
    /\ pc = "done"
    /\ Complete
    /\ "src" \in TreeKeys(tree)
    /\ \E p \in repo : DirName(p) = "src"
    /\ \A p \in repo : DirName(p) = "src" => p \notin TreeKeys(tree)

\* C14: while the selector's application runs, its path list is not empty
\* and 0 <= cursor_position <= len(paths) - 1; up at index 0 and down at
\* the last index leave the cursor where it is; toggle, select-all and
\* select-none do not move it.
C14_CursorClamped ==
    /\ [](pc = "ui" =>
            /\ paths # <<>>
            /\ cursor_position \in 0..(Len(paths) - 1))
    /\ [][(KeyUp /\ cursor_position = 0) => cursor_position' = 0]_vars
    /\ [][(KeyDown /\ cursor_position = Len(paths) - 1) =>
            cursor_position' = Len(paths) - 1]_vars
    /\ [][(KeySpace \/ KeyA \/ KeyU) => cursor_position' = cursor_position]_vars

\* C14's case: the application runs on two paths or more, the cursor has
\* been moved down to the last one, and a path has been toggled off.
C14_Witness ==
    /\ pc = "ui"
    /\ Len(paths) >= 2
    /\ cursor_position = Len(paths) - 1
    /\ selected # Range(paths)

\* The list holds each of its elements once, in the order of str.
StrictlySorted(list) ==
    \A i, j \in DOMAIN list : i < j => StrLess(list[i], list[j])

\* C15: when _get_selected_files has constructed the selector and started
\* its application, the selected set is the set of the surviving
\* directories and files, and the path list holds exactly them, sorted; the
\* list stays that way while the application runs.
C15_StartsAllSelected ==
    /\ [][(SelectorStart /\ pc' = "ui") =>
            /\ selected' = Survivors
            /\ Range(paths') = Survivors
            /\ StrictlySorted(paths')]_vars
    /\ [](pc = "ui" => (Range(paths) = Survivors /\ StrictlySorted(paths)))

\* C15's case: the application has just started on a list with a directory
\* and a file below it, all selected, and the repository holds an entry
\* that was filtered out.
C15_Witness ==
    /\ pc = "ui"
    /\ cursor_position = 0
    /\ selected = Range(paths)
    /\ {"src", "src/main.py"} \subseteq selected
    /\ repo \ selected # {}

\* The name the claim gives a repository: the last component of the input,
\* less a trailing ".git" when the input is a URL.
LastComponent(path) ==
    IF Positions(path, "/") = {} THEN path
    ELSE SubSeq(path, SetMax(Positions(path, "/")) + 1, Len(path))

NameWithoutGitSuffix(path) ==
    LET last == LastComponent(path)
    IN  IF IsUrl(path) /\ EndsWith(last, ".git")
        THEN SubSeq(last, 1, Len(last) - 4)
        ELSE last

\* C16, as stated: the repository name main passes on, which heads the
\* document and names its file <name>.flat.md, is the input's last
\* component, with a trailing ".git" removed for a URL and nothing else
\* changed.
C16_RepoNameKeepsAllButSuffix ==
    flat_file # <<>> =>
        /\ flat_file[1].kind = "title"
        /\ flat_file[1].path = NameWithoutGitSuffix(input_path)

\* C17: for a repository with no .gitignore, load_gitignore_patterns
\* returns the empty list, and every call of should_include_path answered
\* True exactly when the path holds none of the built-in substrings.
C17_NoIgnoreFileBuiltinsOnly ==
    (".gitignore" \notin repo /\ root_folder # "") =>
        /\ load_gitignore_patterns(root_folder) = <<>>
        /\ \A c \in calls : c.result = ~HasBuiltinSubstring(c.file_path)

\* C17's case: on a repository with no .gitignore the filter was asked
\* about a Python file and included it, and about a path it excluded.
C17_Witness ==
    /\ ".gitignore" \notin repo
    /\ \E c \in calls : EndsWith(c.file_path, "main.py") /\ c.result = TRUE
    /\ \E c \in calls : c.result = FALSE

\* C18, as stated: in interactive mode the file sections follow one
\* another in the sorted order of their paths, and in the tree the files of
\* one directory follow one another in sorted order, and so do its
\* directories.
C18_InteractiveOrderSorted ==
    interactive_mode =>
        /\ \A i, j \in SectionsOfKind("file") :
            i < j => StrLess(flat_file[i].path, flat_file[j].path)
        /\ \A i, j \in DOMAIN tree :
            (/\ i < j
             /\ DirName(tree[i].path) = DirName(tree[j].path)
             /\ tree[i].is_file = tree[j].is_file) =>
                StrLess(tree[i].path, tree[j].path)

\* The lines of the rendered tree, in the order they were written.
TreeLines == SelectSeq(flat_file, LAMBDA sec : sec.kind = "tree")

\* The position of a path among the keys of the tree.
TreeIndex(p) == CHOOSE i \in DOMAIN tree : tree[i].path = p

\* The node is the last of its directory's keys.
IsLastSibling(p) ==
    \A i \in DOMAIN tree :
        DirName(tree[i].path) = DirName(p) => i <= TreeIndex(p)

\* The guides in front of a node's connector: one for each directory above
\* it, outermost first.
RECURSIVE GuidesOf(_)
GuidesOf(p) ==
    IF DirName(p) = "" THEN ""
    ELSE GuidesOf(DirName(p))
            \o (IF IsLastSibling(DirName(p)) THEN GuideLast ELSE GuideMid)

\* q lies below the directory p.
IsBelow(q, p) == StartsWith(q, p \o "/")

\* The node the k-th line of the rendered tree is for, "" if it names none.
NodeOfLine(k) ==
    LET named == {p \in TreeKeys(tree) : BaseName(p) = TreeLines[k].path}
    IN  IF named = {} THEN "" ELSE CHOOSE p \in named : TRUE

\* C19: once the tree is rendered there is one line per node and one node
\* per line; a directory's line comes before the lines of the nodes below
\* it, which follow it with no other line between; the nodes of one
\* directory come in the order of its keys; a line is made of the guides
\* of the directories above its node (blank below a last child, a bar
\* below any other), the connector (last child or not), and the node's
\* name; an empty tree has no line.
C19_TreeRendering ==
    (structure_only /\ Complete) =>
        /\ Len(TreeLines) = Len(tree)
        /\ \A k \in DOMAIN TreeLines : NodeOfLine(k) # ""
        /\ \A k, l \in DOMAIN TreeLines : NodeOfLine(k) = NodeOfLine(l) => k = l
        /\ \A k \in DOMAIN TreeLines :
            LET p == NodeOfLine(k)
            IN  /\ TreeLines[k].tag =
                        GuidesOf(p) \o (IF IsLastSibling(p) THEN ConnectorLast
                                        ELSE ConnectorMid)
                /\ DirName(p) # "" =>
                        \E j \in 1..(k - 1) : NodeOfLine(j) = DirName(p)
        /\ \A k, m, l \in DOMAIN TreeLines :
            (k < m /\ m < l /\ IsBelow(NodeOfLine(l), NodeOfLine(k))) =>
                IsBelow(NodeOfLine(m), NodeOfLine(k))
        /\ \A k, l \in DOMAIN TreeLines :
            (k < l /\ DirName(NodeOfLine(k)) = DirName(NodeOfLine(l))) =>
                TreeIndex(NodeOfLine(k)) < TreeIndex(NodeOfLine(l))
        /\ tree = <<>> => TreeLines = <<>>

\* C19's case: a rendered tree with a directory that is not the last child
\* of the root, a last child below it drawn behind a bar, and a last child
\* of the root.
C19_Witness ==
    /\ structure_only
    /\ Complete
    /\ \E k \in DOMAIN TreeLines :
        /\ TreeLines[k].tag = GuideMid \o ConnectorLast
        /\ DirName(NodeOfLine(k)) # ""
    /\ \E k \in DOMAIN TreeLines : TreeLines[k].tag = ConnectorMid
    /\ \E k \in DOMAIN TreeLines : TreeLines[k].tag = ConnectorLast

\* The nodes a selection asks for: the selected paths and every directory
\* above one of them.
NodesOfSelection(S) == S \cup UNION {Ancestors(p) : p \in S}

\* C20: in interactive structure-only mode, whatever the order in which the
\* selected paths were inserted, the tree holds one node for each selected
\* path and for each directory above one, selected or not, files as files
\* and directories as directories, and no other node.
C20_ImplicitParentsOrderFree ==
    (interactive_mode /\ structure_only /\ Complete /\ ~selected_paths.none) =>
        /\ TreeKeys(tree) = NodesOfSelection(selected_paths.value)
        /\ Len(tree) = Cardinality(NodesOfSelection(selected_paths.value))
        /\ \A i \in DOMAIN tree : tree[i].is_file <=> tree[i].path \in UniverseFiles

\* C20's case: two files of src are selected and src is not; the tree
\* holds src, made for the first file and found present for the second,
\* and both files.
C20_Witness ==
    /\ interactive_mode
    /\ structure_only
    /\ Complete
    /\ ~selected_paths.none
    /\ selected_paths.value = {"src/main.py", "src/util.py"}
    /\ {"src", "src/main.py", "src/util.py"} \subseteq TreeKeys(tree)

\* The set S with the membership of p flipped.
Flipped(S, p) == IF p \in S THEN S \ {p} ELSE S \cup {p}

\* C21: the selected set is always a subset of the path list; a toggle
\* flips the membership of the path under the cursor, leaves the membership
\* of every other path, the path list and the cursor as they were, and a
\* second flip of the same path gives back the selection before the toggle.
C21_ToggleFlipsOnePath ==
    /\ [](selected \subseteq Range(paths))
    /\ [][KeySpace =>
            LET path == paths[cursor_position + 1]
            IN  /\ paths' = paths
                /\ cursor_position' = cursor_position
                /\ (path \in selected') <=> (path \notin selected)
                /\ \A q \in Range(paths) \ {path} :
                    (q \in selected') <=> (q \in selected)
                /\ selected' \subseteq Range(paths)
                /\ Flipped(selected', path) = selected]_vars

\* C21's case: the application runs with the cursor moved off the first
\* path, the path under it toggled off, and other paths still selected.
C21_Witness ==
    /\ pc = "ui"
    /\ cursor_position > 0
    /\ paths[cursor_position + 1] \notin selected
    /\ selected # {}
    /\ selected \subseteq Range(paths)

\* The ways the selection step ends that always leave no selection.
EndsWithoutSelection ==
    {"cancelled", "application raised", "declined empty", "no paths",
     "fallback: c", "fallback: no paths"}

\* C22: in interactive mode the output file is open only when
\* _get_selected_files has returned a selection; while it has returned
\* none, flatten_repo_interactive is not in its writing part, and nothing
\* has been written; and after a cancel key, a declined prompt, an empty
\* path list or a fallback cancel there is no selection and no output file.
C22_NoSelectionNoFile ==
    interactive_mode =>
        /\ opened => ~selected_paths.none
        /\ selected_paths.none =>
            /\ pc \notin {"interactive", "files"}
            /\ ~opened
            /\ flat_file = <<>>
        /\ ui \in EndsWithoutSelection =>
            /\ selected_paths.none
            /\ ~opened
            /\ flat_file = <<>>

\* C22's case: the fallback menu was given input that is not a number,
\* the step ended without a selection, and main has ended with no output
\* file opened.
C22_Witness ==
    /\ interactive_mode
    /\ ui = "fallback: s"
    /\ selected_paths.none
    /\ pc = "done"
    /\ ~opened
    /\ flat_file = <<>>

\* The relative path and every directory above it pass the filter when it
\* is asked about the path relative to the root.
SurvivesRelative(p) ==
    \A q \in Ancestors(p) \cup {p} : should_include_path(q, Spec_(root_folder))

\* The files whose sections the document body holds when inclusion is
\* decided on root-relative paths.
ExpectedFilesRelative ==
    {p \in repo \cap UniverseFiles :
        /\ SurvivesRelative(p)
        /\ Join(root_folder, p) # readme_path
        /\ SplitExt(BaseName(p)) \in KnownExtensions}

\* C23: inclusion depends only on the root-relative path and the rule set:
\* every answer of should_include_path is the answer for the path relative
\* to the repository root, and the finished content-mode document of
\* flatten_repo holds the sections of exactly the files that are included
\* by their relative paths, wherever the root lies.
C23_RootLocationIrrelevant ==
    /\ \A c \in calls :
        c.result = should_include_path(RelPath(c.file_path, root_folder),
                                       Spec_(root_folder))
    /\ (~structure_only /\ ~interactive_mode /\ Complete) =>
            FileSectionPaths = ExpectedFilesRelative

====
